---- MODULE Spec2Model ----
(***************************************************************************)
(* whisper_lambda: a serverless handler that stages a base64 audio payload *)
(* into a temporary file, runs a pretrained speech-to-text model on it and *)
(* answers with a status/body envelope.                                    *)
(*                                                                         *)
(*   src/main/download_model.py   build-time model provisioner             *)
(*   src/main/app.py              model loader, get_file_extension, handler*)
(*                                                                         *)
(* Python values are records tagged with their type t.  A str is a        *)
(* sequence: of characters for a filename, of base64 symbols for an audio  *)
(* payload, and of one token (the whole MIME type) for a content type.     *)
(***************************************************************************)
EXTENDS Integers, Sequences, FiniteSets, TLC

VARIABLES
    pc,              \* process position: "build", "coldstart", "ready", "crashed"
    envModelSize,    \* the MODEL_SIZE environment variable of the runtime
    cache,           \* model names whose artifact is in <cache>/whisper
    MODEL_SIZE,      \* app.py module global
    model,           \* app.py module global: the loaded model handle
    loadCount,       \* whisper.load_model calls made by the runtime process
    runtimeFetch,    \* the runtime process attempted a network download
    phase,           \* position of the current handler invocation
    invocations,     \* handler invocations started so far
    event,           \* handler argument
    audio_data,      \* handler local
    content_type,    \* handler local
    filename,        \* handler local
    file_ext,        \* handler local
    temp_audio,      \* handler local: the name of the open NamedTemporaryFile
    temp_audio_path, \* handler local
    pending,         \* response built by the return statement of line 139
    exc,             \* exception propagating inside the outer try block
    raised,          \* every exception raised during this invocation, in order
    calls,           \* model.transcribe calls of this invocation
    fs,              \* temporary directory: path -> [content, open]
    response         \* what handler returned

vars == <<pc, envModelSize, cache, MODEL_SIZE, model, loadCount, runtimeFetch,
          phase, invocations, event, audio_data, content_type, filename,
          file_ext, temp_audio, temp_audio_path, pending, exc, raised, calls, fs, response>>

(***************************************************************************)
(* Bounds of the model.                                                    *)
(***************************************************************************)
\* longest filename explored by the resolver specification
MaxLen == 5
\* longest audio payload, in bytes, beside SampleBytes
MaxAudioLen == 1
\* handler invocations per process
MaxInvocations == 2

(***************************************************************************)
(* Python values.                                                          *)
(***************************************************************************)
\* a key that is not in a dict
Absent == [t |-> "absent"]
None == [t |-> "none"]
PyNum(n) == [t |-> "number", num |-> n]
PyBool(b) == [t |-> "bool", bool |-> b]
PyStr(s) == [t |-> "string", chars |-> s]
PyBytes(b) == [t |-> "bytes", bytes |-> b]
\* a list, known by the keys it holds as members
PyList(members) == [t |-> "list", members |-> members]
PyDict(fields) == [t |-> "dict", fields |-> fields]

\* an exception object; str(e) is its message
Exception(type, msg) == [type |-> type, msg |-> msg]
NoExc == Exception("", "")
Raise(e) == [kind |-> "raise", exc |-> e]
Ok(v) == [kind |-> "ok", v |-> v]

\* bool(x) for the values of the model
Truthy(x) ==
    CASE x.t \in {"absent", "none"} -> FALSE
      [] x.t = "bool" -> x.bool
      [] x.t = "number" -> x.num # 0
      [] x.t = "string" -> x.chars # <<>>
      [] x.t = "list" -> x.members # {}
      [] OTHER -> TRUE

(***************************************************************************)
(* urllib.parse.unquote and os.path.splitext (posixpath), as             *)
(* get_file_extension uses them.  A filename is a sequence of characters.  *)
(***************************************************************************)
\* characters of the filenames explored
Alphabet == {"w", ".", "/", "%", "2", "E"}
\* U+FFFD, what errors='replace' puts for an undecodable byte
Replacement == "U+FFFD"

IsHex(c) == c \in {"2", "E"}
HexVal(c) == IF c = "2" THEN 2 ELSE 14

\* bytes([b]).decode('utf-8', 'replace') for a byte that %XX can spell here:
\* a lone lead byte (0xE2, 0xEE) decodes to U+FFFD
DecodeByte(b) ==
    CASE b = 34 -> "\""
      [] b = 46 -> "."
      [] b >= 128 -> Replacement

RECURSIVE unquote(_)
unquote(s) ==
    IF s = <<>> THEN <<>>
    ELSE IF s[1] = "%" /\ Len(s) >= 3 /\ IsHex(s[2]) /\ IsHex(s[3])
         THEN <<DecodeByte(16 * HexVal(s[2]) + HexVal(s[3]))>>
                  \o unquote(SubSeq(s, 4, Len(s)))
         ELSE <<s[1]>> \o unquote(Tail(s))

\* str.rfind: the last index of c in p, 0 when there is none
RECURSIVE rfind(_, _)
rfind(p, c) ==
    IF p = <<>> THEN 0
    ELSE IF p[Len(p)] = c THEN Len(p)
    ELSE rfind(SubSeq(p, 1, Len(p) - 1), c)

\* a splitext that drops the dot of the extension
splitextWithoutDot(p) ==
    LET sepIndex == rfind(p, "/")
        dotIndex == rfind(p, ".")
    IN  IF dotIndex > sepIndex
           /\ \E i \in (sepIndex + 1)..(dotIndex - 1) : p[i] # "."
        THEN SubSeq(p, dotIndex + 1, Len(p))
        ELSE <<>>

\* genericpath._splitext, the extension only: the text from the last dot,
\* unless that dot comes before the last separator or only dots precede it
\* in the last path component
splitext(p) ==
    LET sepIndex == rfind(p, "/")
        dotIndex == rfind(p, ".")
    IN  IF dotIndex > sepIndex
           /\ \E i \in (sepIndex + 1)..(dotIndex - 1) : p[i] # "."
        THEN SubSeq(p, dotIndex, Len(p))
        ELSE <<>>

(***************************************************************************)
(* MIME_TO_EXT and get_file_extension.                                     *)
(***************************************************************************)
ExtWav == <<".", "w", "a", "v">>
ExtMp3 == <<".", "m", "p", "3">>
ExtOgg == <<".", "o", "g", "g">>
ExtFlac == <<".", "f", "l", "a", "c">>
ExtM4a == <<".", "m", "4", "a">>
ExtAac == <<".", "a", "a", "c">>
ExtWebm == <<".", "w", "e", "b", "m">>

MIME_TO_EXT ==
    [ct \in {"audio/wav", "audio/x-wav", "audio/wave", "audio/mp3",
             "audio/mpeg", "audio/ogg", "audio/flac", "audio/x-flac",
             "audio/m4a", "audio/x-m4a", "audio/mp4", "audio/x-mp4",
             "audio/aac", "audio/webm"} |->
        CASE ct \in {"audio/wav", "audio/x-wav", "audio/wave"} -> ExtWav
          [] ct \in {"audio/mp3", "audio/mpeg"} -> ExtMp3
          [] ct = "audio/ogg" -> ExtOgg
          [] ct \in {"audio/flac", "audio/x-flac"} -> ExtFlac
          [] ct \in {"audio/m4a", "audio/x-m4a", "audio/mp4", "audio/x-mp4"} -> ExtM4a
          [] ct = "audio/aac" -> ExtAac
          [] ct = "audio/webm" -> ExtWebm]

\* `content_type in MIME_TO_EXT`: hashing a list or a dict raises
InMimeMap(ct) ==
    IF ct.t \in {"list", "dict"}
    THEN Raise(Exception("TypeError", "unhashable type"))
    ELSE Ok(ct.t = "string" /\ Len(ct.chars) = 1
            /\ ct.chars[1] \in DOMAIN MIME_TO_EXT)

\* lines 59-64 without the unquote of line 61
FilenameExtUndecoded(fn) ==
    IF ~Truthy(fn) THEN Ok(<<>>)
    ELSE IF fn.t # "string"
    THEN Raise(Exception("TypeError", "unquote: not a string"))
    ELSE Ok(splitext(fn.chars))

\* lines 59-64: the extension of the URL-decoded filename, <<>> when the
\* filename gives none; unquote raises on anything that is not a string
FilenameExt(fn) ==
    IF ~Truthy(fn) THEN Ok(<<>>)
    ELSE IF fn.t # "string"
    THEN Raise(Exception("TypeError", "unquote: not a string"))
    ELSE Ok(splitext(unquote(fn.chars)))

\* get_file_extension asking the filename before the content type
get_file_extension_FilenameFirst(ct, fn) ==
    LET ext == FilenameExt(fn)
        known == IF Truthy(ct) THEN InMimeMap(ct) ELSE Ok(FALSE)
    IN  IF ext.kind = "raise" THEN ext
        ELSE IF ext.v # <<>> THEN ext
        ELSE IF known.kind = "raise" THEN known
        ELSE IF known.v THEN Ok(MIME_TO_EXT[ct.chars[1]])
        ELSE Ok(ExtWav)

\* lines 50-68
get_file_extension(ct, fn) ==
    LET known == IF Truthy(ct) THEN InMimeMap(ct) ELSE Ok(FALSE)
    IN  IF known.kind = "raise" THEN known
        ELSE IF known.v THEN Ok(MIME_TO_EXT[ct.chars[1]])
        ELSE LET ext == FilenameExt(fn)
             IN  IF ext.kind = "raise" THEN ext
                 ELSE IF ext.v # <<>> THEN ext
                 ELSE Ok(ExtWav)

(***************************************************************************)
(* base64.  Text is a sequence of symbols: 0..63 a character of the base64 *)
(* alphabet (by its value), Pad the character '=', NonAlpha any other      *)
(* ASCII character.  Bytes are sequences of 0..255.                        *)
(***************************************************************************)
Pad == 64
NonAlpha == 65

\* base64.b64encode, what a caller applies to the audio bytes
RECURSIVE B64Encode(_)
B64Encode(b) ==
    CASE Len(b) = 0 -> <<>>
      [] Len(b) = 1 -> <<b[1] \div 4, (b[1] % 4) * 16, Pad, Pad>>
      [] Len(b) = 2 -> <<b[1] \div 4, (b[1] % 4) * 16 + b[2] \div 16,
                         (b[2] % 16) * 4, Pad>>
      [] OTHER -> <<b[1] \div 4, (b[1] % 4) * 16 + b[2] \div 16,
                    (b[2] % 16) * 4 + b[3] \div 64, b[3] % 64>>
                      \o B64Encode(SubSeq(b, 4, Len(b)))

\* binascii.a2b_base64, not strict: characters outside the alphabet are
\* skipped, a completed pad sequence ends the parse, leftover characters
\* are an error
RECURSIVE a2b_base64(_, _, _, _, _)
a2b_base64(s, quad_pos, leftchar, pads, out) ==
    IF s = <<>>
    THEN IF quad_pos = 0 THEN Ok(PyBytes(out))
         ELSE IF quad_pos = 1
         THEN Raise(Exception("binascii.Error",
                    "Invalid base64-encoded string: number of data characters cannot be 1 more than a multiple of 4"))
         ELSE Raise(Exception("binascii.Error", "Incorrect padding"))
    ELSE LET c == Head(s) IN
         IF c = Pad
         THEN IF quad_pos >= 2 /\ quad_pos + pads + 1 >= 4
              THEN Ok(PyBytes(out))
              ELSE a2b_base64(Tail(s), quad_pos, leftchar,
                              IF quad_pos >= 2 THEN pads + 1 ELSE pads, out)
         ELSE IF c >= 64
         THEN a2b_base64(Tail(s), quad_pos, leftchar, pads, out)
         ELSE CASE quad_pos = 0 -> a2b_base64(Tail(s), 1, c, 0, out)
                [] quad_pos = 1 ->
                     a2b_base64(Tail(s), 2, c % 16, 0,
                                Append(out, leftchar * 4 + c \div 16))
                [] quad_pos = 2 ->
                     a2b_base64(Tail(s), 3, c % 4, 0,
                                Append(out, leftchar * 16 + c \div 4))
                [] quad_pos = 3 ->
                     a2b_base64(Tail(s), 0, 0, 0,
                                Append(out, leftchar * 64 + c))

\* base64.b64decode(x): only str (and bytes-like) arguments decode
b64decode(x) ==
    IF x.t # "string"
    THEN Raise(Exception("TypeError",
               "argument should be a bytes-like object or ASCII string"))
    ELSE a2b_base64(x.chars, 0, 0, 0, <<>>)

(***************************************************************************)
(* The JSON documents a handler can meet, as Python values.                *)
(*   - a dict holds the five keys the handler reads, Absent when missing;  *)
(*   - a str or list met where a dict is expected is known by which of the *)
(*     keys "body" and "audio" it contains ('k in x' is a substring or     *)
(*     membership test there);                                             *)
(*   - the text of a `body` is known by what json.loads makes of it and by *)
(*     what json.loads makes of its base64 decoding.                       *)
(***************************************************************************)
Dict(body, isB64, audio, ct, fn) ==
    PyDict([body |-> body, isBase64Encoded |-> isB64, audio |-> audio,
            contentType |-> ct, filename |-> fn])

\* a str known by the keys that occur in it
PyStrWith(keys) == [t |-> "string", has |-> keys]

\* the text of a body
BodyText(asJson, asB64Json) ==
    [t |-> "string", json |-> asJson, b64json |-> asB64Json]

\* `key in x`
Contains(key, x) ==
    CASE x.t = "dict" -> Ok(x.fields[key].t # "absent")
      [] x.t = "string" -> Ok(key \in x.has)
      [] x.t = "list" -> Ok(key \in x.members)
      [] OTHER -> Raise(Exception("TypeError", "argument is not iterable"))

\* x.get(key, default)
Get(x, key, default) ==
    IF x.t = "dict"
    THEN Ok(IF x.fields[key].t = "absent" THEN default ELSE x.fields[key])
    ELSE Raise(Exception("AttributeError", "object has no attribute 'get'"))

\* x[key], after `key in x` answered True
Index(x, key) ==
    IF x.t = "dict" THEN Ok(x.fields[key])
    ELSE Raise(Exception("TypeError", "indices must be integers"))

JSONDecodeError == Exception("JSONDecodeError", "Expecting value")

\* json.loads(x)
json_loads(x) ==
    IF x.t # "string"
    THEN Raise(Exception("TypeError",
               "the JSON object must be str, bytes or bytearray"))
    ELSE x.json

\* json.loads(base64.b64decode(x))
json_loads_b64decode(x) ==
    IF x.t # "string"
    THEN Raise(Exception("TypeError",
               "argument should be a bytes-like object or ASCII string"))
    ELSE x.b64json

\* json.dumps(obj): the text that parses back to obj
json_dumps(obj) == [json |-> obj]

\* str(e)
Str(e) == e.msg

(***************************************************************************)
(* handler, lines 76-113: from the event to the audio bytes, the metadata  *)
(* and the extension.  Nothing here touches the filesystem or the model.   *)
(***************************************************************************)
\* lines 96-99 and 107-110
NoAudioResponse ==
    [statusCode |-> 400, body |-> json_dumps([error |-> "No audio data provided"])]

\* a fileType that keeps the leading dot
FileTypeKeepsDot(ext) == ext

\* line 134: file_ext[1:] if file_ext.startswith('.') else file_ext
FileType(ext) == IF ext # <<>> /\ ext[1] = "." THEN Tail(ext) ELSE ext

\* lines 129-136
SuccessResponse(transcription, ext) ==
    [statusCode |-> 200,
     body |-> json_dumps([transcription |-> transcription, model |-> MODEL_SIZE,
                          fileType |-> FileType(ext)])]

\* an except clause that answers 400
ErrorResponseAsBadRequest(e) ==
    [statusCode |-> 400, body |-> json_dumps([error |-> Str(e)])]

\* lines 148-151
ErrorResponse(e) ==
    [statusCode |-> 500, body |-> json_dumps([error |-> Str(e)])]

\* line 146: `except Exception` catches every exception the handler's calls
\* raise; only BaseException-only types would pass it
ExceptionTypes ==
    {"TypeError", "AttributeError", "KeyError", "JSONDecodeError",
     "binascii.Error", "OSError", "PermissionError", "RuntimeError"}
\* `except ValueError` in place of `except Exception`
IsCaughtValueErrorOnly(e) == e.type \in {"JSONDecodeError", "binascii.Error"}
IsCaught(e) == e.type \in ExceptionTypes

\* lines 83-88 and 100-101: the logical body of the event
LogicalBody(ev) ==
    LET hasBody == Contains("body", ev) IN
    IF hasBody.kind = "raise" THEN hasBody
    ELSE IF ~hasBody.v THEN Ok(ev)
    ELSE LET isB64 == Get(ev, "isBase64Encoded", PyBool(FALSE)) IN
         IF isB64.kind = "raise" THEN isB64
         ELSE IF Truthy(isB64.v)
         THEN json_loads_b64decode(Index(ev, "body").v)
         ELSE json_loads(Index(ev, "body").v)

\* lines 91-99 and 102-110 (the same code on `body` and on `event`)
ExtractAudio(body) ==
    LET has == Contains("audio", body) IN
    IF has.kind = "raise" THEN has
    ELSE IF ~has.v THEN [kind |-> "return", response |-> NoAudioResponse]
    ELSE LET item == Index(body, "audio") IN
         IF item.kind = "raise" THEN item
         ELSE LET data == b64decode(item.v) IN
              IF data.kind = "raise" THEN data
              ELSE [kind |-> "ok", audio_data |-> data.v,
                    content_type |-> Get(body, "contentType", None).v,
                    filename |-> Get(body, "filename", None).v]

\* lines 83-113
Normalize(ev) ==
    LET body == LogicalBody(ev) IN
    IF body.kind = "raise" THEN body
    ELSE LET got == ExtractAudio(body.v) IN
         IF got.kind # "ok" THEN got
         ELSE LET ext == get_file_extension(got.content_type, got.filename) IN
              IF ext.kind = "raise" THEN ext
              ELSE [kind |-> "ok", audio_data |-> got.audio_data,
                    content_type |-> got.content_type,
                    filename |-> got.filename, file_ext |-> ext.v]

(***************************************************************************)
(* The inputs explored.                                                    *)
(***************************************************************************)
SeqsUpTo(S, n) == UNION {[1..k -> S] : k \in 0..n}

ByteVals == {165, 255}
\* the payload of the events that carry metadata
SampleBytes == <<165, 255, 0>>
AudioBytes == SeqsUpTo(ByteVals, MaxAudioLen) \cup {SampleBytes}
\* one character; two characters; junk and stray characters around "EA=="
MalformedAudioTexts ==
    {<<16>>, <<16, 16>>, <<NonAlpha, 4, 0, Pad, Pad, 16>>}
AudioTexts == {B64Encode(b) : b \in AudioBytes} \cup MalformedAudioTexts
AudioVals == {None, PyNum(5)} \cup {PyStr(t) : t \in AudioTexts}

SampleAudio == PyStr(B64Encode(SampleBytes))
ContentTypeVals ==
    {Absent, PyStr(<<"audio/mpeg">>), PyStr(<<"unknown/type">>), PyList({"audio/mpeg"})}
FilenameVals == {Absent, PyStr(<<"w", "%", "2", "E", "w">>), PyNum(5)}

\* JSON objects met as a logical body
DocDicts ==
    {Dict(Absent, Absent, a, Absent, Absent) : a \in AudioVals \cup {Absent}}
    \cup {Dict(Absent, Absent, SampleAudio, ct, fn) :
             ct \in ContentTypeVals, fn \in FilenameVals}
\* JSON values that are not objects
NonDicts ==
    {None, PyNum(5)}
    \cup {PyStrWith(k) : k \in {{}, {"audio"}, {"body"}}}
    \cup {PyList(k) : k \in {{}, {"audio"}, {"body"}}}
Docs == DocDicts \cup NonDicts

Malformed == Raise(JSONDecodeError)
NotBase64 == Raise(Exception("binascii.Error", "Incorrect padding"))
\* the values of an event's `body`: JSON text, base64 of JSON text, text
\* that is neither, and values that are not text
BodyVals ==
    {None, PyNum(5), BodyText(Malformed, Malformed), BodyText(Malformed, NotBase64)}
    \cup {BodyText(Ok(d), NotBase64) : d \in Docs}
    \cup {BodyText(Malformed, Ok(d)) : d \in Docs}
IsBase64Vals == {Absent, PyBool(TRUE), PyBool(FALSE)}

Events ==
    Docs
    \cup {Dict(b, f, Absent, Absent, Absent) : b \in BodyVals, f \in IsBase64Vals}
    \cup {Dict(BodyText(Ok(Dict(Absent, Absent, Absent, Absent, Absent)), NotBase64),
               Absent, SampleAudio, Absent, Absent)}

\* what model.transcribe can hand back as result['text']
Texts == {"hello world", ""}
\* the model sizes a deployment may name
ModelSizes == {"tiny.en", "base"}
Unset == "unset"

(***************************************************************************)
(* Initial state: the image is about to be built; no process runs.         *)
(***************************************************************************)
NoPath == [id |-> 0, suffix |-> <<>>]
NoResponse == [statusCode |-> 0, body |-> json_dumps([error |-> ""])]
NoModel == [name |-> ""]
EmptyFs == [p \in {} |-> [content |-> <<>>, open |-> FALSE]]

\* lines 78-80, and the locals not yet bound
FreshLocals ==
    /\ audio_data = None
    /\ content_type = None
    /\ filename = None
    /\ file_ext = <<>>
    /\ temp_audio = NoPath
    /\ temp_audio_path = NoPath
    /\ pending = NoResponse
    /\ exc = NoExc
    /\ raised = <<>>
    /\ calls = <<>>

Init ==
    /\ pc = "build"
    /\ envModelSize \in ModelSizes \cup {Unset}
    /\ cache = {}
    /\ MODEL_SIZE = ""
    /\ model = NoModel
    /\ loadCount = 0
    /\ runtimeFetch = FALSE
    /\ phase = "idle"
    /\ invocations = 0
    /\ event = None
    /\ FreshLocals
    /\ fs = EmptyFs
    /\ response = NoResponse

handlerVars == <<phase, invocations, event, audio_data, content_type, filename,
                 file_ext, temp_audio, temp_audio_path, pending, exc, raised,
                 calls, fs, response>>

(***************************************************************************)
(* download_model.py, run while the image is built.                        *)
(***************************************************************************)
MODEL_NAME == "tiny.en"

\* lines 26-37: whisper.load_model(MODEL_NAME) downloads the artifact into
\* the cache; a failed download fails the build
Provision ==
    /\ pc = "build"
    /\ \E downloaded \in BOOLEAN :
          IF downloaded
          THEN cache' = cache \cup {MODEL_NAME} /\ pc' = "coldstart"
          ELSE cache' = cache /\ pc' = "buildfailed"
    /\ UNCHANGED <<envModelSize, MODEL_SIZE, model, loadCount, runtimeFetch>>
    /\ UNCHANGED handlerVars

(***************************************************************************)
(* app.py module initialization, lines 15-30.                              *)
(***************************************************************************)
\* line 15
ConfiguredSize == IF envModelSize = Unset THEN "tiny.en" ELSE envModelSize

\* line 21: whisper.load_model reads the artifact from the cache, and
\* downloads it first when the cache does not hold it; without a usable
\* handle the process does not start
LoadModel ==
    /\ pc = "coldstart"
    /\ MODEL_SIZE' = ConfiguredSize
    /\ loadCount' = loadCount + 1
    /\ IF ConfiguredSize \in cache
       THEN /\ model' = [name |-> ConfiguredSize]
            /\ pc' = "ready"
            /\ UNCHANGED <<cache, runtimeFetch>>
       ELSE /\ runtimeFetch' = TRUE
            /\ \E fetched \in BOOLEAN :
                  IF fetched
                  THEN /\ cache' = cache \cup {ConfiguredSize}
                       /\ model' = [name |-> ConfiguredSize]
                       /\ pc' = "ready"
                  ELSE /\ pc' = "crashed"
                       /\ UNCHANGED <<cache, model>>
    /\ UNCHANGED envModelSize
    /\ UNCHANGED handlerVars

(***************************************************************************)
(* handler(event, context), one action per step that meets the filesystem  *)
(* or the model.                                                           *)
(***************************************************************************)
\* lines 146-151: the outer except clause, reached by exception e
Catch(e) ==
    /\ exc' = e
    /\ IF IsCaught(e)
       THEN phase' = "done" /\ response' = ErrorResponse(e)
       ELSE phase' = "escaped" /\ response' = NoResponse

\* a handler that loads the model again on its way
HandlerReloadsModel ==
    /\ loadCount' = loadCount + 1
    /\ UNCHANGED <<pc, envModelSize, cache, MODEL_SIZE, model, runtimeFetch>>

\* the handler only reads the module globals (lines 122, 123, 133)
HandlerGlobals == UNCHANGED <<pc, envModelSize, cache, MODEL_SIZE, model,
                              loadCount, runtimeFetch>>

\* lines 74-113: a new invocation, up to the resolved extension
Invoke ==
    /\ pc = "ready"
    /\ phase = "idle"
    /\ invocations < MaxInvocations
    /\ invocations' = invocations + 1
    /\ \E ev \in Events :
          LET n == Normalize(ev) IN
          /\ event' = ev
          /\ CASE n.kind = "raise" ->
                    /\ raised' = <<n.exc>>
                    /\ Catch(n.exc)
                    /\ audio_data' = None /\ content_type' = None
                    /\ filename' = None /\ file_ext' = <<>>
               [] n.kind = "return" ->
                    /\ raised' = <<>> /\ exc' = NoExc
                    /\ phase' = "done" /\ response' = n.response
                    /\ audio_data' = None /\ content_type' = None
                    /\ filename' = None /\ file_ext' = <<>>
               [] n.kind = "ok" ->
                    /\ raised' = <<>> /\ exc' = NoExc
                    /\ phase' = "create" /\ response' = NoResponse
                    /\ audio_data' = n.audio_data
                    /\ content_type' = n.content_type
                    /\ filename' = n.filename
                    /\ file_ext' = n.file_ext
    /\ temp_audio' = NoPath
    /\ temp_audio_path' = NoPath
    /\ pending' = NoResponse
    /\ calls' = <<>>
    /\ UNCHANGED fs
    /\ HandlerGlobals

OSError(msg) == Exception("OSError", msg)

\* line 116: tempfile.NamedTemporaryFile(suffix=file_ext, delete=False)
\* creates an empty file under a name no other file has, or raises
CreateTemp ==
    /\ phase = "create"
    /\ \E created \in BOOLEAN :
          IF created
          THEN LET path == [id |-> invocations, suffix |-> file_ext] IN
               /\ temp_audio' = path
               /\ fs' = fs @@ (path :> [content |-> <<>>, open |-> TRUE])
               /\ phase' = "write"
               /\ UNCHANGED <<exc, raised, response>>
          ELSE LET e == OSError("No space left on device") IN
               /\ raised' = Append(raised, e)
               /\ Catch(e)
               /\ UNCHANGED <<temp_audio, fs>>
    /\ UNCHANGED <<invocations, event, audio_data, content_type, filename,
                   file_ext, temp_audio_path, pending, calls>>
    /\ HandlerGlobals

\* lines 117-118: write the bytes, then read the name.  A failing write
\* leaves the `with` block, which closes the file and keeps it
\* (delete=False), with whatever part of the bytes got through
WriteAudio ==
    /\ phase = "write"
    /\ \E written \in BOOLEAN :
          IF written
          THEN /\ fs' = [fs EXCEPT ![temp_audio].content = audio_data.bytes]
               /\ temp_audio_path' = temp_audio
               /\ phase' = "close"
               /\ UNCHANGED <<exc, raised, response>>
          ELSE \E k \in 0..Len(audio_data.bytes) :
               LET e == OSError("write failed") IN
               /\ fs' = [fs EXCEPT ![temp_audio] =
                            [content |-> SubSeq(audio_data.bytes, 1, k), open |-> FALSE]]
               /\ raised' = Append(raised, e)
               /\ Catch(e)
               /\ UNCHANGED temp_audio_path
    /\ UNCHANGED <<invocations, event, audio_data, content_type, filename,
                   file_ext, temp_audio, pending, calls>>
    /\ HandlerGlobals

\* line 116, leaving the `with` block: the file is flushed and closed, and
\* stays on disk; a failing flush raises with the file closed
CloseTemp ==
    /\ phase = "close"
    /\ \E closed \in BOOLEAN :
          IF closed
          THEN /\ fs' = [fs EXCEPT ![temp_audio].open = FALSE]
               /\ phase' = "transcribe"
               /\ UNCHANGED <<exc, raised, response>>
          ELSE \E k \in 0..Len(audio_data.bytes) :
               LET e == OSError("flush failed") IN
               /\ fs' = [fs EXCEPT ![temp_audio] =
                            [content |-> SubSeq(audio_data.bytes, 1, k), open |-> FALSE]]
               /\ raised' = Append(raised, e)
               /\ Catch(e)
    /\ UNCHANGED <<invocations, event, audio_data, content_type, filename,
                   file_ext, temp_audio, temp_audio_path, pending, calls>>
    /\ HandlerGlobals

\* lines 122-139: the model reads the file at temp_audio_path and returns a
\* result with a text, returns something without one, or raises.  Control
\* then passes to the finally block, with a response or an exception
Transcribe ==
    /\ phase = "transcribe"
    /\ \E outcome \in {"text", "notext", "raise"} : \E text \in Texts :
          /\ outcome # "text" => text = ""
          /\ calls' = Append(calls, [path |-> temp_audio_path,
                                     content |-> fs[temp_audio_path].content,
                                     open |-> fs[temp_audio_path].open,
                                     model |-> model,
                                     outcome |-> outcome,
                                     text |-> text])
          /\ CASE outcome = "text" ->
                    /\ pending' = SuccessResponse(text, file_ext)
                    /\ UNCHANGED <<exc, raised>>
               [] outcome = "notext" ->
                    /\ exc' = Exception("KeyError", "'text'")
                    /\ raised' = Append(raised, exc')
                    /\ UNCHANGED pending
               [] outcome = "raise" ->
                    /\ exc' = Exception("RuntimeError", "Failed to load audio")
                    /\ raised' = Append(raised, exc')
                    /\ UNCHANGED pending
    /\ phase' = "finally"
    /\ UNCHANGED <<invocations, event, audio_data, content_type, filename,
                   file_ext, temp_audio, temp_audio_path, fs, response>>
    /\ HandlerGlobals

\* lines 141-151: remove the file if it is there; an exception of os.remove
\* replaces the return value or the exception on its way out.  Then the
\* handler returns: the response of line 139, or that of the except clause
Cleanup ==
    /\ phase = "finally"
    /\ \E removed \in BOOLEAN :
          IF temp_audio_path \in DOMAIN fs /\ ~removed
          THEN LET e == Exception("PermissionError", "Operation not permitted") IN
               /\ raised' = Append(raised, e)
               /\ Catch(e)
               /\ UNCHANGED fs
          ELSE /\ fs' = [p \in DOMAIN fs \ {temp_audio_path} |-> fs[p]]
               /\ UNCHANGED raised
               /\ IF exc # NoExc
                  THEN Catch(exc)
                  ELSE /\ phase' = "done"
                       /\ response' = pending
                       /\ UNCHANGED exc
    /\ UNCHANGED <<invocations, event, audio_data, content_type, filename,
                   file_ext, temp_audio, temp_audio_path, pending, calls>>
    /\ HandlerGlobals

\* the call is over: the platform has the response, the locals are gone,
\* the process waits for its next event
Return ==
    /\ phase = "done"
    /\ phase' = "idle"
    /\ event' = None
    /\ audio_data' = None
    /\ content_type' = None
    /\ filename' = None
    /\ file_ext' = <<>>
    /\ temp_audio' = NoPath
    /\ temp_audio_path' = NoPath
    /\ pending' = NoResponse
    /\ exc' = NoExc
    /\ raised' = <<>>
    /\ calls' = <<>>
    /\ response' = NoResponse
    /\ UNCHANGED <<invocations, fs>>
    /\ HandlerGlobals

Next ==
    \/ Provision
    \/ LoadModel
    \/ Invoke
    \/ CreateTemp
    \/ WriteAudio
    \/ CloseTemp
    \/ Transcribe
    \/ Cleanup
    \/ Return

Spec == Init /\ [][Next]_vars

(***************************************************************************)
(* get_file_extension on its own: every content type of the mapping, an    *)
(* absent, an empty and an unknown one, against every filename over        *)
(* Alphabet up to MaxLen characters.                                       *)
(***************************************************************************)
ResolverContentTypes ==
    {None, PyStr(<<>>), PyStr(<<"unknown/type">>)}
    \cup {PyStr(<<k>>) : k \in DOMAIN MIME_TO_EXT}
ResolverFilenames == {None} \cup {PyStr(f) : f \in SeqsUpTo(Alphabet, MaxLen)}

InitResolver ==
    /\ pc = "ready"
    /\ envModelSize = Unset
    /\ cache = {MODEL_NAME}
    /\ MODEL_SIZE = "tiny.en"
    /\ model = [name |-> "tiny.en"]
    /\ loadCount = 1
    /\ runtimeFetch = FALSE
    /\ phase = "resolve"
    /\ invocations = 0
    /\ event = None
    /\ audio_data = None
    /\ content_type \in ResolverContentTypes
    /\ filename \in ResolverFilenames
    /\ file_ext = <<>>
    /\ temp_audio = NoPath
    /\ temp_audio_path = NoPath
    /\ pending = NoResponse
    /\ exc = NoExc
    /\ raised = <<>>
    /\ calls = <<>>
    /\ fs = EmptyFs
    /\ response = NoResponse

\* line 113, called on its own
Resolve ==
    /\ phase = "resolve"
    /\ phase' = "resolved"
    /\ LET r == get_file_extension(content_type, filename) IN
       IF r.kind = "ok"
       THEN file_ext' = r.v /\ UNCHANGED exc
       ELSE exc' = r.exc /\ UNCHANGED file_ext
    /\ UNCHANGED <<invocations, event, audio_data, content_type, filename,
                   temp_audio, temp_audio_path, pending, raised, calls, fs,
                   response>>
    /\ HandlerGlobals

NextResolver == Resolve

SpecResolver == InitResolver /\ [][NextResolver]_vars

(***************************************************************************)
(* Properties of the handler and of the process (specification Spec).      *)
(***************************************************************************)
Running == {"create", "write", "close", "transcribe", "finally"}

\* C1: every invocation ends by returning an envelope whose statusCode is 200,
\* 400 or 500 and whose body is JSON text; no exception leaves handler, and no
\* step of an invocation is left without a way on.
EnvelopeAlways ==
    /\ phase # "escaped"
    /\ phase \in Running =>
          ENABLED (CreateTemp \/ WriteAudio \/ CloseTemp \/ Transcribe \/ Cleanup)
    /\ phase = "done" =>
          /\ response.statusCode \in {200, 400, 500}
          /\ \E obj \in {[error |-> Str(exc)],
                         [error |-> "No audio data provided"],
                         pending.body.json} :
                response.body = json_dumps(obj)

\* an invocation in which the model raised and then os.remove raised
EnvelopeAfterDoubleFault ==
    /\ phase = "done"
    /\ Len(raised) = 2
    /\ raised[1].type = "RuntimeError"
    /\ response.statusCode = 500

\* C2: when handler has returned, no temporary audio file is on disk.
TempFilesGone == phase \in {"idle", "done"} => DOMAIN fs = {}

\* the logical body of an event, read off the event: the event itself when
\* it has no `body`, else what its `body` parses to (null for a null body);
\* no logical body when the body text does not parse
ParsedBody(ev) ==
    IF ev.fields.body.t # "string" THEN Ok(None)
    ELSE IF Truthy(ev.fields.isBase64Encoded) THEN ev.fields.body.b64json
    ELSE ev.fields.body.json
HasLogicalBody(ev) ==
    /\ ev.t = "dict"
    /\ ev.fields.body.t # "absent" =>
          /\ ev.fields.body.t \in {"string", "none"}
          /\ ParsedBody(ev).kind = "ok"
LogicalBodyOf(ev) ==
    IF ev.fields.body.t = "absent" THEN ev ELSE ParsedBody(ev).v
HasAudioKey(doc) == doc.t = "dict" /\ doc.fields.audio.t # "absent"

\* C3: an event whose logical body has no `audio` key is answered with 400 and
\* the fixed body, also when its `body` is null or parses to a value that is
\* not an object.
MissingAudioIs400 ==
    (phase = "done" /\ HasLogicalBody(event) /\ ~HasAudioKey(LogicalBodyOf(event)))
        => response = NoAudioResponse

\* the bytes B whose base64 encoding the logical body of the event carries
CarriesAudio(ev, B) ==
    /\ HasLogicalBody(ev)
    /\ HasAudioKey(LogicalBodyOf(ev))
    /\ LogicalBodyOf(ev).fields.audio = PyStr(B64Encode(B))
\* None for a key that is missing
FieldOf(doc, key) ==
    IF doc.fields[key].t = "absent" THEN None ELSE doc.fields[key]
\* the 200 answer C4 describes: one model call, on a closed file that holds
\* exactly B under a name ending with the resolved extension, and a body
\* with the model's text, the configured size and the extension less its dot
RoundTrip(B) ==
    LET doc == LogicalBodyOf(event)
        ext == get_file_extension(FieldOf(doc, "contentType"),
                                  FieldOf(doc, "filename")).v
    IN  /\ Len(calls) = 1
        /\ calls[1].content = B
        /\ ~calls[1].open
        /\ calls[1].path.suffix = ext
        /\ calls[1].model = [name |-> ConfiguredSize]
        /\ ext[1] = "."
        /\ response = [statusCode |-> 200,
                       body |-> json_dumps([transcription |-> calls[1].text,
                                            model |-> ConfiguredSize,
                                            fileType |-> Tail(ext)])]

\* the model was called and every call returned a result with a text
ModelReturnedText ==
    /\ calls # <<>>
    /\ \A i \in 1..Len(calls) : calls[i].outcome = "text"
\* os.remove raised in the finally block
RemoveFailed == \E i \in 1..Len(raised) : raised[i].type = "PermissionError"

\* C4 as claimed: base64 audio bytes B and a model call that returns its
\* text without raising give the 200 answer.
RoundTripUnlessModelRaises ==
    (phase = "done" /\ ModelReturnedText)
        => \A B \in AudioBytes : CarriesAudio(event, B) => RoundTrip(B)

\* C4, amended: base64 audio bytes B and a model call that returns its text
\* without raising give the 200 answer, provided os.remove does not raise
\* when the temporary file is removed afterwards.
RoundTripUnlessRemoveFails ==
    (phase = "done" /\ ModelReturnedText /\ ~RemoveFailed)
        => \A B \in AudioBytes : CarriesAudio(event, B) => RoundTrip(B)

\* a gateway-wrapped event, base64 body, whose filename gives the extension
RoundTripDone ==
    /\ phase = "done"
    /\ event.t = "dict"
    /\ event.fields.body.t = "string"
    /\ Truthy(event.fields.isBase64Encoded)
    /\ CarriesAudio(event, SampleBytes)
    /\ raised = <<>>
    /\ file_ext = <<".", "w">>
    /\ response.statusCode = 200
    /\ response.body.json.transcription = "hello world"

\* C5: an exception raised while handling an event ends the invocation with
\* 500 and the text of the exception that reached the except clause (the last
\* one raised), never with 200 or 400.
ExceptionIs500 ==
    (phase = "done" /\ raised # <<>>)
        => /\ exc = raised[Len(raised)]
           /\ response = [statusCode |-> 500,
                          body |-> json_dumps([error |-> exc.msg])]

\* the transcription succeeded, os.remove raised
CleanupFailureAfterSuccess ==
    /\ phase = "done"
    /\ pending.statusCode = 200
    /\ Len(raised) = 1
    /\ raised[1].type = "PermissionError"
    /\ response.statusCode = 500

\* C6: the runtime process never attempts a network fetch, whatever model
\* size it is configured with.
NoRuntimeFetch == ~runtimeFetch

\* C7: the model is loaded exactly once, before any invocation; while
\* invocations are handled the load count is 1 and the handle and the
\* configured size are what module initialization made them.
LoadedOnce ==
    /\ pc # "ready" => invocations = 0 /\ phase = "idle"
    /\ pc \in {"build", "buildfailed", "coldstart"} =>
          loadCount = 0 /\ model = NoModel /\ MODEL_SIZE = ""
    /\ pc = "ready" =>
          /\ loadCount = 1
          /\ MODEL_SIZE = ConfiguredSize
          /\ model = [name |-> ConfiguredSize]

\* a second invocation has ended in 500 or 400
LoadedOnceAfterFailures ==
    /\ pc = "ready"
    /\ invocations = 2
    /\ phase = "done"
    /\ response.statusCode \in {400, 500}
    /\ loadCount = 1

(***************************************************************************)
(* Properties of get_file_extension (specification SpecResolver).          *)
(***************************************************************************)
IsKnownType(ct) ==
    ct.t = "string" /\ Len(ct.chars) = 1 /\ ct.chars[1] \in DOMAIN MIME_TO_EXT
\* the extension of the URL-decoded filename, <<>> when there is none
DecodedExt(fn) ==
    IF fn.t = "string" THEN splitext(unquote(fn.chars)) ELSE <<>>

\* C8: a content type of the mapping gives the extension mapped to it,
\* whatever the filename.
KnownTypeWins ==
    (phase = "resolved" /\ IsKnownType(content_type))
        => /\ exc = NoExc
           /\ file_ext = MIME_TO_EXT[content_type.chars[1]]
           /\ content_type.chars[1] = "audio/mp4" => file_ext = <<".", "m", "4", "a">>
           /\ content_type.chars[1] = "audio/mpeg" => file_ext = <<".", "m", "p", "3">>

\* audio/mpeg with a filename whose extension is .2E
KnownTypeAgainstFilename ==
    /\ phase = "resolved"
    /\ content_type = PyStr(<<"audio/mpeg">>)
    /\ filename = PyStr(<<"w", ".", "2", "E">>)
    /\ file_ext = ExtMp3

\* C9: without a content type of the mapping, a filename whose URL-decoded
\* form has an extension gives that extension as it is.
FilenameExtensionAsIs ==
    (phase = "resolved" /\ ~IsKnownType(content_type) /\ DecodedExt(filename) # <<>>)
        => /\ exc = NoExc
           /\ file_ext = DecodedExt(filename)
           /\ filename = PyStr(<<"w", "%", "2", "E">>) => file_ext = <<".">>
           /\ filename = PyStr(<<"/", "w", ".", "E">>) => file_ext = <<".", "E">>

\* an extension that only URL-decoding brings out
DecodedExtensionResolved ==
    /\ phase = "resolved"
    /\ content_type = PyStr(<<"unknown/type">>)
    /\ filename = PyStr(<<"w", "%", "2", "E">>)
    /\ file_ext = <<".">>

\* C10: get_file_extension raises nothing and returns a string that starts
\* with a dot; without a content type of the mapping and without a filename
\* extension it returns .wav.
TotalWithDefault ==
    phase = "resolved"
        => /\ exc = NoExc
           /\ file_ext # <<>>
           /\ file_ext[1] = "."
           /\ (~IsKnownType(content_type) /\ DecodedExt(filename) = <<>>)
                 => file_ext = <<".", "w", "a", "v">>

\* unknown/type and a dot-file under a dotted directory: no extension
DefaultResolved ==
    /\ phase = "resolved"
    /\ content_type = PyStr(<<"unknown/type">>)
    /\ filename = PyStr(<<".", "/", ".", "w">>)
    /\ file_ext = ExtWav

====
